---- MODULE Spec2Model ----
(***************************************************************************)
(* Model of the realtime relay servers of this repository:                 *)
(*   - the voice-swap bridge   src/node-server/index.js, lines 1-264       *)
(*   - the persona relay       src/unnamed/part_000                        *)
(*   - the persona relay       src/node-server/index.js, lines 266-420     *)
(* One Bridge Session (one accepted downstream connection) is modelled in  *)
(* full; a second session of the bridge, `peer`, takes part in the         *)
(* isolation specification.  Which of the three programs runs the session  *)
(* is the variable `variant`, fixed at Init together with the process      *)
(* configuration.                                                          *)
(***************************************************************************)
EXTENDS Integers, Sequences, FiniteSets, TLC

VARIABLES
    variant,            \* "bridge" | "relayA" (part_000) | "relayB" (index.js 266-420)
    VOICE_SWAP,         \* index.js:24
    PLAY_TO,            \* index.js:37
    PLAY_URL,           \* index.js:173  ("" when the query parameter is absent)
    BOT_ID,             \* index.js:174  ("" when neither query nor env gives one)
    ALLOW_CLIENT_VOICE, \* part_000:15
    upState,            \* readyState of the upstream socket
    dsState,            \* readyState of the downstream socket
    upstreamOpen,       \* index.js:181
    downstreamOpen,     \* index.js:182
    textBuffers,        \* index.js:184  Map response_id -> string
    connected,          \* client.isConnected() of the persona relays
    messageQueue,       \* part_000:88 / index.js:349
    timerArmed,         \* the pending setTimeout of part_000:146 / index.js:401
    tasks,              \* the suspended tails of upstream.on('message'), index.js:222-239
    players,            \* index.js:50  Set of debug listeners, with their readyState
    peer,               \* the closure of a second session of the bridge, index.js:169-184
    upSent,             \* history: frames handed to the upstream socket, in order
    dsSent,             \* history: frames handed to the downstream socket, in order
    upOpened,           \* history: the upstream socket has reached OPEN
    upLog,              \* history: frames received from upstream, in order
    dsLog,              \* history: frames received from downstream, in order
    dispatched,         \* history: utterances that entered the delivery block (index.js:222)
    said,               \* history: broadcastSay calls and the listeners each reached
    errors              \* history: errors that left a handler uncaught

vars == <<variant, VOICE_SWAP, PLAY_TO, PLAY_URL, BOT_ID, ALLOW_CLIENT_VOICE,
          upState, dsState, upstreamOpen, downstreamOpen, textBuffers,
          connected, messageQueue, timerArmed, tasks, players, peer,
          upSent, dsSent, upOpened, upLog, dsLog, dispatched, said, errors>>

config == <<variant, VOICE_SWAP, PLAY_TO, PLAY_URL, BOT_ID, ALLOW_CLIENT_VOICE>>

----------------------------------------------------------------------------
(* Bounds of the model.                                                    *)

MaxUpText == 4      \* upstream frames per session, text specification
MaxUpRelay == 2     \* upstream frames per session, relay specification
MaxDown == 2        \* downstream frames per session, relay specification
MaxUpDeliver == 4   \* upstream frames per session, delivery specification
MaxChunks == 2      \* POSTs of one raw-media push

\* index.js:145
CHUNK == 32768

----------------------------------------------------------------------------
(* JavaScript objects are functions from the names of the fields that are  *)
(* present to their values; strings are sequences of characters.           *)

Has(o, f) == f \in DOMAIN o

DeleteFieldKeeps(o, f) == o

DeleteField(o, f) == [k \in (DOMAIN o) \ {f} |-> o[k]]

SetField(o, f, v) == [k \in (DOMAIN o) \cup {f} |-> IF k = f THEN v ELSE o[k]]

IsSpace(c) == c = " "

RECURSIVE TrimStart(_)
TrimStart(s) ==
    IF s = <<>> THEN s
    ELSE IF IsSpace(Head(s)) THEN TrimStart(Tail(s)) ELSE s

RECURSIVE TrimEnd(_)
TrimEnd(s) ==
    IF s = <<>> THEN s
    ELSE IF IsSpace(s[Len(s)]) THEN TrimEnd(SubSeq(s, 1, Len(s) - 1)) ELSE s

TrimNone(s) == s

\* String.prototype.trim, index.js:219
Trim(s) == TrimEnd(TrimStart(s))

----------------------------------------------------------------------------
(* Sockets of the ws library.  A socket is CONNECTING, OPEN, CLOSING (close *)
(* was called on an open socket, the closing handshake is pending),        *)
(* ABORTING (close was called while CONNECTING: the handshake is aborted), *)
(* ERRORED ('error' was emitted, the socket is destroyed, 'close' is       *)
(* pending) or CLOSED ('close' was emitted).                               *)

\* socket.close(): index.js:249-255, part_000:59,66,85,155
CloseSocket(st) ==
    CASE st = "OPEN" -> "CLOSING"
      [] st = "CONNECTING" -> "ABORTING"
      [] OTHER -> st

\* frames are still received on a socket this side has asked to close
Receiving(st) == st \in {"OPEN", "CLOSING"}

----------------------------------------------------------------------------
(* Configuration and identifiers.                                          *)

MODEL_REALTIME == "gpt-4o-realtime-preview"
MUNFFETT_LONG == "MUNFFETT_LONG"
MUNFFETT_PER_TURN == "MUNFFETT_PER_TURN"

\* process.env.PLAY_TO lower-cased; 'recall' without RECALL_API_KEY exits at start
PlayToValues == {"playurl", "recall"}

PlayUrlValues == {"", "https://play"}

BotIdValues == {"", "bot1"}

PlayerIds == {"p1"}

----------------------------------------------------------------------------
(* The voice-swap bridge, index.js:169-257.                                *)

\* index.js:190-196
BridgeSessionFrame ==
    [type |-> "session.update",
     session |-> [model |-> MODEL_REALTIME,
                  turn_detection |-> "server_vad",
                  input_audio_format |-> "pcm16"]]

RidWithoutItemId(ev) ==
    IF Has(ev, "response_id") THEN ev.response_id ELSE "default"

\* index.js:212 and 218: ev.response_id || ev.item_id || 'default'
Rid(ev) ==
    IF Has(ev, "response_id") THEN ev.response_id
    ELSE IF Has(ev, "item_id") THEN ev.item_id
    ELSE "default"

BufferGetAcrossSessions(m, rid) ==
    IF rid \in DOMAIN m THEN m[rid]
    ELSE IF rid \in DOMAIN peer.textBuffers THEN peer.textBuffers[rid]
    ELSE <<>>

\* textBuffers.get(rid) || ''
BufferGet(m, rid) == IF rid \in DOMAIN m THEN m[rid] ELSE <<>>

\* index.js:211-215
AppendDeltaReversed(m, ev) ==
    SetField(m, Rid(ev),
             (IF Has(ev, "delta") THEN ev.delta ELSE <<>>) \o BufferGet(m, Rid(ev)))

AppendDelta(m, ev) ==
    SetField(m, Rid(ev),
             BufferGet(m, Rid(ev)) \o (IF Has(ev, "delta") THEN ev.delta ELSE <<>>))

IsJson(buf) == ~Has(buf, "raw")

IsDelta(buf) == IsJson(buf) /\ Has(buf, "type") /\ buf.type = "response.text.delta"

\* index.js:217
IsCompletion(buf) ==
    IsJson(buf) /\ Has(buf, "type")
    /\ buf.type \in {"response.text.done", "response.done"}

\* index.js:224-232: which synthesis-based sink the delivery block takes
RouteDefaultFirst(playUrl, playTo) ==
    IF playTo = "recall" THEN "recall"
    ELSE IF playUrl # "" THEN "playUrl" ELSE "none"

Route(playUrl, playTo) ==
    IF playUrl # "" THEN "playUrl"
    ELSE IF playTo = "recall" THEN "recall" ELSE "none"

BroadcastTargetsAll(ps) == DOMAIN ps

\* index.js:57-60: the listeners the message is sent to
BroadcastTargets(ps) == {p \in DOMAIN ps : ps[p] = "OPEN"}

BroadcastSay(text) == Append(said, [text |-> text, to |-> BroadcastTargets(players)])

\* index.js:222-239, up to the first await.  Without a synthesis sink nothing is
\* awaited and broadcastSay runs in the same turn.
StartDelivery(text) ==
    LET route == Route(PLAY_URL, PLAY_TO)
    IN /\ dispatched' = Append(dispatched, [at |-> Len(upLog) + 1, text |-> text])
       /\ IF route = "none"
          THEN /\ tasks' = Append(tasks, [text |-> text, route |-> route, pc |-> "done",
                                         left |-> 0, failed |-> FALSE,
                                         len |-> 0, off |-> 0, posts |-> <<>>])
               /\ said' = BroadcastSay(text)
          ELSE /\ tasks' = Append(tasks, [text |-> text, route |-> route, pc |-> "synth",
                                         left |-> 0, failed |-> FALSE,
                                         len |-> 0, off |-> 0, posts |-> <<>>])
               /\ UNCHANGED said

\* index.js:203, part_000:83: send on the downstream socket; the ws library hands
\* the frame to the peer only when the socket is open, and a failed send is
\* swallowed
DownstreamSendParsedOnly(sent, st, buf) ==
    IF st = "OPEN" /\ IsJson(buf) THEN Append(sent, buf) ELSE sent

DownstreamSendAfterDelivery(sent, st, buf) ==
    IF st = "OPEN" /\ \A i \in 1..Len(tasks) : tasks[i].pc = "done"
    THEN Append(sent, buf) ELSE sent

DownstreamSend(sent, st, buf) == IF st = "OPEN" THEN Append(sent, buf) ELSE sent

\* index.js:186-197
BridgeUpstreamOpen ==
    /\ variant = "bridge"
    /\ upState = "CONNECTING"
    /\ upState' = "OPEN"
    /\ upstreamOpen' = TRUE
    /\ upOpened' = TRUE
    /\ upSent' = Append(upSent, [from |-> "server", n |-> 0, frame |-> BridgeSessionFrame])
    /\ UNCHANGED <<config, peer, dsState, downstreamOpen, textBuffers, connected, messageQueue,
                   timerArmed, tasks, players, dsSent, upLog, dsLog, dispatched, said,
                   errors>>

\* index.js:211-215: the Map of the closure after the delta branch
AfterDelta(m, buf) == IF IsDelta(buf) THEN AppendDelta(m, buf) ELSE m

\* index.js:219
FullText(m, buf) == Trim(BufferGet(AfterDelta(m, buf), Rid(buf)))

\* index.js:211-220: the Map of the closure after the handler has run on buf
AfterEvent(m, buf) ==
    IF IsCompletion(buf) THEN DeleteField(AfterDelta(m, buf), Rid(buf))
    ELSE AfterDelta(m, buf)

\* index.js:199-244
BridgeUpstreamMessage(buf) ==
    /\ variant = "bridge"
    /\ Receiving(upState)
    /\ upLog' = Append(upLog, [frame |-> buf, alive |-> downstreamOpen,
                               open |-> dsState = "OPEN"])
    /\ IF ~downstreamOpen
       THEN UNCHANGED <<dsSent, textBuffers, tasks, dispatched, said>>
       ELSE /\ dsSent' = DownstreamSend(dsSent, dsState, buf)
            /\ IF ~VOICE_SWAP \/ ~IsJson(buf)
               THEN UNCHANGED <<textBuffers, tasks, dispatched, said>>
               ELSE /\ textBuffers' = AfterEvent(textBuffers, buf)
                    /\ IF IsCompletion(buf) /\ FullText(textBuffers, buf) # <<>>
                       THEN StartDelivery(FullText(textBuffers, buf))
                       ELSE UNCHANGED <<tasks, dispatched, said>>
    /\ UNCHANGED <<config, peer, upState, dsState, upstreamOpen, downstreamOpen, connected,
                   messageQueue, timerArmed, players, upSent, upOpened, dsLog, errors>>

\* index.js:247
BridgeDownstreamMessage(msg) ==
    /\ variant = "bridge"
    /\ Receiving(dsState)
    /\ dsLog' = Append(dsLog, [frame |-> msg, early |-> ~upOpened, queued |-> FALSE,
                               open |-> upState = "OPEN"])
    /\ upSent' = IF upstreamOpen /\ upState = "OPEN"
                 THEN Append(upSent, [from |-> "client", n |-> Len(dsLog) + 1,
                                      frame |-> msg])
                 ELSE upSent
    /\ UNCHANGED <<config, peer, upState, dsState, upstreamOpen, downstreamOpen, textBuffers,
                   connected, messageQueue, timerArmed, tasks, players, dsSent, upOpened,
                   upLog, dispatched, said, errors>>

\* the 'close' handler of the downstream without its `downstreamOpen = false`
BridgeDownstreamCloseKeepsFlag ==
    /\ variant = "bridge"
    /\ dsState \in {"OPEN", "CLOSING", "ERRORED"}
    /\ dsState' = "CLOSED"
    /\ upState' = CloseSocket(upState)
    /\ UNCHANGED <<config, peer, upstreamOpen, downstreamOpen, textBuffers, connected,
                   messageQueue, timerArmed, tasks, players, upSent, dsSent, upOpened,
                   upLog, dsLog, dispatched, said, errors>>

\* index.js:249
BridgeDownstreamClose ==
    /\ variant = "bridge"
    /\ dsState \in {"OPEN", "CLOSING", "ERRORED"}
    /\ dsState' = "CLOSED"
    /\ downstreamOpen' = FALSE
    /\ upState' = CloseSocket(upState)
    /\ UNCHANGED <<config, peer, upstreamOpen, textBuffers, connected, messageQueue, timerArmed,
                   tasks, players, upSent, dsSent, upOpened, upLog, dsLog, dispatched, said, errors>>

\* index.js:250
BridgeDownstreamError ==
    /\ variant = "bridge"
    /\ dsState \in {"OPEN", "CLOSING"}
    /\ dsState' = "ERRORED"
    /\ downstreamOpen' = FALSE
    /\ upState' = CloseSocket(upState)
    /\ UNCHANGED <<config, peer, upstreamOpen, textBuffers, connected, messageQueue, timerArmed,
                   tasks, players, upSent, dsSent, upOpened, upLog, dsLog, dispatched, said, errors>>

\* index.js:252
BridgeUpstreamClose ==
    /\ variant = "bridge"
    /\ upState \in {"OPEN", "CLOSING", "ERRORED"}
    /\ upState' = "CLOSED"
    /\ dsState' = IF downstreamOpen THEN CloseSocket(dsState) ELSE dsState
    /\ UNCHANGED <<config, peer, upstreamOpen, downstreamOpen, textBuffers, connected,
                   messageQueue, timerArmed, tasks, players, upSent, dsSent, upOpened, upLog, dsLog,
                   dispatched, said, errors>>

\* index.js:253-256
BridgeUpstreamError ==
    /\ variant = "bridge"
    /\ upState \in {"CONNECTING", "OPEN", "CLOSING", "ABORTING"}
    /\ upState' = "ERRORED"
    /\ dsState' = IF downstreamOpen THEN CloseSocket(dsState) ELSE dsState
    /\ UNCHANGED <<config, peer, upstreamOpen, downstreamOpen, textBuffers, connected,
                   messageQueue, timerArmed, tasks, players, upSent, dsSent, upOpened, upLog, dsLog,
                   dispatched, said, errors>>

\* index.js:199-244 in the closure of the second session.  Its delivery block is
\* followed up to the local broadcast only when it takes no synthesis-based sink.
PeerUpstreamMessage(buf) ==
    /\ variant = "bridge"
    /\ Receiving(peer.upState)
    /\ LET alive == peer.downstreamOpen
           handled == alive /\ VOICE_SWAP /\ IsJson(buf)
           text == FullText(peer.textBuffers, buf)
           starts == handled /\ IsCompletion(buf) /\ text # <<>>
       IN /\ peer' = [peer EXCEPT
                !.upLog = Append(@, [frame |-> buf, alive |-> alive,
                                     open |-> peer.dsState = "OPEN"]),
                !.dsSent = IF alive THEN DownstreamSend(@, peer.dsState, buf) ELSE @,
                !.textBuffers = IF handled THEN AfterEvent(@, buf) ELSE @,
                !.dispatched = IF starts
                               THEN Append(@, [at |-> Len(peer.upLog) + 1, text |-> text])
                               ELSE @]
          /\ said' = IF starts /\ Route(PLAY_URL, PLAY_TO) = "none"
                     THEN BroadcastSay(text) ELSE said
    /\ UNCHANGED <<config, upState, dsState, upstreamOpen, downstreamOpen, textBuffers,
                   connected, messageQueue, timerArmed, tasks, players, upSent, dsSent,
                   upOpened, upLog, dsLog, dispatched, errors>>

\* index.js:247 in the closure of the second session
PeerDownstreamMessage(msg) ==
    /\ variant = "bridge"
    /\ Receiving(peer.dsState)
    /\ peer' = [peer EXCEPT
          !.dsLog = Append(@, [frame |-> msg, early |-> FALSE, queued |-> FALSE,
                               open |-> peer.upState = "OPEN"]),
          !.upSent = IF peer.upstreamOpen /\ peer.upState = "OPEN"
                     THEN Append(@, [from |-> "client", n |-> Len(peer.dsLog) + 1,
                                     frame |-> msg])
                     ELSE @]
    /\ UNCHANGED <<config, upState, dsState, upstreamOpen, downstreamOpen, textBuffers,
                   connected, messageQueue, timerArmed, tasks, players, upSent, dsSent,
                   upOpened, upLog, dsLog, dispatched, said, errors>>

\* the close frame of the downstream peer has arrived: the socket is CLOSING until
\* its 'close' event is emitted (index.js:249, part_000:130), and a send on it fails
DownstreamClosing ==
    /\ dsState = "OPEN"
    /\ dsState' = "CLOSING"
    /\ UNCHANGED <<config, peer, upState, upstreamOpen, downstreamOpen, textBuffers, connected,
                   messageQueue, timerArmed, tasks, players, upSent, dsSent, upOpened,
                   upLog, dsLog, dispatched, said, errors>>

----------------------------------------------------------------------------
(* The suspended tail of upstream.on('message'): index.js:222-239 after    *)
(* its first await, with the callees index.js:119-164.                     *)

FinishTaskBroadcastInTry(i, t, failed) ==
    /\ tasks' = [tasks EXCEPT ![i] = [t EXCEPT !.pc = "done", !.left = 0,
                                               !.failed = failed]]
    /\ said' = IF failed THEN said ELSE BroadcastSay(t.text)

\* the try block is left (normally or through catch): index.js:233-238; t is the
\* delivery as its last request left it
FinishTask(i, t, failed) ==
    /\ tasks' = [tasks EXCEPT ![i] = [t EXCEPT !.pc = "done", !.left = 0,
                                               !.failed = failed]]
    /\ said' = BroadcastSay(t.text)

SliceEndWholeBuffer(off, len) == len

\* index.js:147: Math.min(i + CHUNK, pcmBuffer.length)
SliceEnd(off, len) == IF off + CHUNK < len THEN off + CHUNK ELSE len

\* the POSTs the loop of index.js:146 still has to make from offset off on
ChunksLeft(off, len) == IF off < len THEN (len - off + CHUNK - 1) \div CHUNK ELSE 0

\* the TTS request succeeds: index.js:226-227 / 230-231 with 143-149 and 157-160.
\* n is the length in bytes of the synthesized PCM buffer.
SynthResolve(i, n) ==
    /\ i \in 1..Len(tasks)
    /\ tasks[i].pc = "synth"
    /\ IF tasks[i].route = "playUrl"
       THEN IF ~(0 < n)
            THEN FinishTask(i, [tasks[i] EXCEPT !.len = n], FALSE)
            ELSE /\ tasks' = [tasks EXCEPT ![i].pc = "post", ![i].len = n, ![i].off = 0,
                                           ![i].left = ChunksLeft(0, n)]
                 /\ UNCHANGED said
       ELSE IF BOT_ID = ""
            THEN FinishTask(i, tasks[i], TRUE)
            ELSE /\ tasks' = [tasks EXCEPT ![i].pc = "post", ![i].left = 1]
                 /\ UNCHANGED said
    /\ UNCHANGED <<config, peer, upState, dsState, upstreamOpen, downstreamOpen, textBuffers,
                   connected, messageQueue, timerArmed, players, upSent, dsSent, upOpened, upLog,
                   dsLog, dispatched, errors>>

\* the TTS request fails: index.js:233-235
SynthReject(i) ==
    /\ i \in 1..Len(tasks)
    /\ tasks[i].pc = "synth"
    /\ FinishTask(i, tasks[i], TRUE)
    /\ UNCHANGED <<config, peer, upState, dsState, upstreamOpen, downstreamOpen, textBuffers,
                   connected, messageQueue, timerArmed, players, upSent, dsSent, upOpened, upLog,
                   dsLog, dispatched, errors>>

\* one POST settles: index.js:149-152 (a failure is swallowed, the loop goes on)
\* or index.js:160-163 (a failure is thrown into the catch of index.js:233)
PostSettle(i, ok) ==
    /\ i \in 1..Len(tasks)
    /\ tasks[i].pc = "post"
    /\ IF tasks[i].route = "playUrl"
       THEN LET t == tasks[i]
                next == t.off + CHUNK
                posted == [t EXCEPT !.posts = Append(@, [lo |-> t.off,
                                                         hi |-> SliceEnd(t.off, t.len),
                                                         ok |-> ok]),
                                    !.off = next,
                                    !.left = ChunksLeft(next, t.len)]
            IN IF next < t.len
               THEN /\ tasks' = [tasks EXCEPT ![i] = posted]
                    /\ UNCHANGED said
               ELSE FinishTask(i, posted, FALSE)
       ELSE FinishTask(i, tasks[i], ~ok)
    /\ UNCHANGED <<config, peer, upState, dsState, upstreamOpen, downstreamOpen, textBuffers,
                   connected, messageQueue, timerArmed, players, upSent, dsSent, upOpened, upLog,
                   dsLog, dispatched, errors>>

----------------------------------------------------------------------------
(* The debug listeners, index.js:50-56.                                    *)

\* index.js:53-54
PlayerConnect(p) ==
    /\ p \notin DOMAIN players
    /\ players' = SetField(players, p, "OPEN")
    /\ UNCHANGED <<config, peer, upState, dsState, upstreamOpen, downstreamOpen, textBuffers,
                   connected, messageQueue, timerArmed, tasks, upSent, dsSent, upOpened, upLog,
                   dsLog, dispatched, said, errors>>

\* the closing handshake of a listener starts; it stays registered until 'close'
PlayerClosing(p) ==
    /\ p \in DOMAIN players
    /\ players[p] = "OPEN"
    /\ players' = [players EXCEPT ![p] = "CLOSING"]
    /\ UNCHANGED <<config, peer, upState, dsState, upstreamOpen, downstreamOpen, textBuffers,
                   connected, messageQueue, timerArmed, tasks, upSent, dsSent, upOpened, upLog,
                   dsLog, dispatched, said, errors>>

\* index.js:55
PlayerClose(p) ==
    /\ p \in DOMAIN players
    /\ players' = DeleteField(players, p)
    /\ UNCHANGED <<config, peer, upState, dsState, upstreamOpen, downstreamOpen, textBuffers,
                   connected, messageQueue, timerArmed, tasks, upSent, dsSent, upOpened, upLog,
                   dsLog, dispatched, said, errors>>

----------------------------------------------------------------------------
(* Initial states: the session right after the downstream connection was   *)
(* accepted and the handlers were registered.                              *)

\* index.js:169-197: a second session of the bridge, accepted earlier, whose upstream
\* has opened and has been sent the session configuration
PeerInit ==
    [upState |-> "OPEN", dsState |-> "OPEN", upstreamOpen |-> TRUE,
     downstreamOpen |-> TRUE, textBuffers |-> <<>>, upSent |-> <<>>, dsSent |-> <<>>,
     upLog |-> <<>>, dsLog |-> <<>>, dispatched |-> <<>>]

\* index.js:169-184, part_000:56-88, index.js:318-349
SessionInit ==
    /\ upState = "CONNECTING"
    /\ dsState = "OPEN"
    /\ upstreamOpen = FALSE
    /\ downstreamOpen = TRUE
    /\ textBuffers = <<>>
    /\ connected = FALSE
    /\ messageQueue = <<>>
    /\ timerArmed = FALSE
    /\ tasks = <<>>
    /\ players = <<>>
    /\ peer = PeerInit
    /\ upSent = <<>>
    /\ dsSent = <<>>
    /\ upOpened = FALSE
    /\ upLog = <<>>
    /\ dsLog = <<>>
    /\ dispatched = <<>>
    /\ said = <<>>
    /\ errors = {}

\* index.js:24, 37, 173, 174
BridgeConfig ==
    /\ variant = "bridge"
    /\ VOICE_SWAP \in BOOLEAN
    /\ PLAY_TO \in PlayToValues
    /\ PLAY_URL \in PlayUrlValues
    /\ BOT_ID \in BotIdValues
    /\ ALLOW_CLIENT_VOICE = FALSE

----------------------------------------------------------------------------
(* Upstream frames of the text specification.                              *)

Ch(c) == <<c>>

DeltaEvent(ids, text) == ids @@ [type |-> "response.text.delta", delta |-> text]

DoneEvent(ids, t) == ids @@ [type |-> t]

R1 == [response_id |-> "r1"]

R2 == [response_id |-> "r2"]

I1 == [item_id |-> "i1"]

TextUpEvents ==
    {DeltaEvent(R1, Ch(c)) : c \in {"a", "b", " "}}
    \cup {R1 @@ [type |-> "response.text.delta"]}
    \cup {DoneEvent(R1, t) : t \in {"response.text.done", "response.done"}}
    \cup {DeltaEvent(R2, Ch("b")), DoneEvent(R2, "response.text.done")}
    \cup {[type |-> "response.text.delta", delta |-> Ch("a")], [type |-> "response.done"]}
    \cup {DeltaEvent(I1, Ch("a"))}
    \cup {[type |-> "response.created"], [raw |-> "audio"]}

TextUpstreamMessage ==
    /\ Len(upLog) < MaxUpText
    /\ \E buf \in TextUpEvents : BridgeUpstreamMessage(buf)

\* the text specification: the Event Interceptor of the voice-swap bridge under
\* every interleaving of deltas and completions of several identifiers
InitText ==
    /\ SessionInit
    /\ BridgeConfig
    /\ PLAY_TO = "playurl"
    /\ PLAY_URL = "https://play"
    /\ BOT_ID = ""

NextText ==
    \/ BridgeUpstreamOpen
    \/ TextUpstreamMessage
    \/ BridgeDownstreamClose

SpecText == InitText /\ [][NextText]_vars

----------------------------------------------------------------------------
(* Vocabulary of the properties, read off the histories.                   *)

AllSpaces(s) == \A i \in 1..Len(s) : s[i] = " "

\* t is s without its leading and trailing whitespace
IsTrimOf(t, s) ==
    \E i \in 0..Len(s) : \E j \in i..Len(s) :
        /\ t = SubSeq(s, i + 1, j)
        /\ \A x \in 1..i : s[x] = " "
        /\ \A x \in (j + 1)..Len(s) : s[x] = " "
        /\ t # <<>> => (t[1] # " " /\ t[Len(t)] # " ")

\* the k-th upstream frame is a completion event that names a response identifier
\* and was handled while the downstream was alive
HandledCompletion(k) ==
    /\ upLog[k].alive
    /\ IsCompletion(upLog[k].frame)
    /\ Has(upLog[k].frame, "response_id")

SameResponse(j, k) ==
    /\ Has(upLog[j].frame, "response_id")
    /\ upLog[j].frame.response_id = upLog[k].frame.response_id

\* the last completion event before k for the identifier of k (0 when none)
PreviousCompletion(k) ==
    LET S == {j \in 1..(k - 1) : IsCompletion(upLog[j].frame) /\ SameResponse(j, k)}
    IN IF S = {} THEN 0 ELSE CHOOSE j \in S : \A i \in S : i <= j

\* the delta events of the identifier of k in upLog[lo..hi]
DeltasOf(k, lo, hi) == {j \in lo..hi : IsDelta(upLog[j].frame) /\ SameResponse(j, k)}

\* their texts, concatenated in arrival order
RECURSIVE ConcatDeltas(_, _, _)
ConcatDeltas(k, lo, hi) ==
    IF lo > hi THEN <<>>
    ELSE (IF lo \in DeltasOf(k, lo, hi) /\ Has(upLog[lo].frame, "delta")
          THEN upLog[lo].frame.delta ELSE <<>>)
         \o ConcatDeltas(k, lo + 1, hi)

Expected(k) == ConcatDeltas(k, PreviousCompletion(k) + 1, k - 1)

DispatchesAt(k) == {i \in 1..Len(dispatched) : dispatched[i].at = k}

\* C1 as stated: every sequence of deltas (each carrying text) of one response
\* identifier followed by a completion event for it makes exactly one dispatch, of
\* the trimmed concatenation of the deltas in arrival order.
C1_ExactlyOnceForEverySequence ==
    VOICE_SWAP =>
        \A k \in 1..Len(upLog) :
            (/\ HandledCompletion(k)
             /\ DeltasOf(k, PreviousCompletion(k) + 1, k - 1) # {}
             /\ \A j \in DeltasOf(k, PreviousCompletion(k) + 1, k - 1) :
                   Has(upLog[j].frame, "delta")) =>
                /\ Cardinality(DispatchesAt(k)) = 1
                /\ \A i \in DispatchesAt(k) : IsTrimOf(dispatched[i].text, Expected(k))

\* C1 amended: with voice-swap enabled, a completion event for a response identifier
\* handled while the downstream is alive makes exactly one dispatch, of the trimmed
\* concatenation (arrival order) of the deltas of that identifier since its previous
\* completion, when that text is not empty after trimming, and no dispatch otherwise;
\* deltas of other identifiers in between do not change the text; nothing else
\* dispatches.
C1_TrimmedConcatenationOnce ==
    /\ \A i \in 1..Len(dispatched) :
          dispatched[i].at \in 1..Len(upLog) /\ IsCompletion(upLog[dispatched[i].at].frame)
    /\ VOICE_SWAP =>
        \A k \in 1..Len(upLog) :
            HandledCompletion(k) =>
                IF AllSpaces(Expected(k))
                THEN DispatchesAt(k) = {}
                ELSE /\ Cardinality(DispatchesAt(k)) = 1
                     /\ \A i \in DispatchesAt(k) : IsTrimOf(dispatched[i].text, Expected(k))

\* C1 witness: deltas " ", "a" of r1 with a delta of r2 in between, then the
\* completion of r1, dispatched "a"
C1_Witness ==
    /\ Len(upLog) = 4
    /\ upLog[1].frame = DeltaEvent(R1, Ch(" "))
    /\ upLog[2].frame = DeltaEvent(R2, Ch("b"))
    /\ upLog[3].frame = DeltaEvent(R1, Ch("a"))
    /\ upLog[4].frame = DoneEvent(R1, "response.text.done")
    /\ dispatched = <<[at |-> 4, text |-> Ch("a")]>>

\* the step handles a completion event whose buffer entry is missing or holds only
\* whitespace
EmptyCompletionStep ==
    /\ Len(upLog') = Len(upLog) + 1
    /\ upLog'[Len(upLog')].alive
    /\ IsCompletion(upLog'[Len(upLog')].frame)
    /\ LET rid == Rid(upLog'[Len(upLog')].frame)
       IN rid \notin DOMAIN textBuffers \/ AllSpaces(textBuffers[rid])

\* C2: a completion event for an identifier without buffer entry, or whose text is
\* empty after trimming, starts no delivery, raises no error and leaves the session
\* as it was (the frame is still relayed and the entry, if any, removed).
C2_EmptyCompletionIsNoOp ==
    [][EmptyCompletionStep =>
          /\ UNCHANGED <<dispatched, tasks, said, errors, upState, dsState, upstreamOpen,
                         downstreamOpen, upSent>>
          /\ Rid(upLog'[Len(upLog')].frame) \notin DOMAIN textBuffers'
          /\ \A r \in DOMAIN textBuffers' : textBuffers'[r] = textBuffers[r]]_vars

\* C2 witness: response.text.done of r1 dispatched, the response.done of r1 that
\* follows found no entry and dispatched nothing
C2_Witness ==
    /\ VOICE_SWAP
    /\ Len(upLog) = 4
    /\ upLog[1].frame = DeltaEvent(R1, Ch("a"))
    /\ upLog[2].frame = DoneEvent(R1, "response.text.done")
    /\ upLog[3].frame = DoneEvent(R1, "response.done")
    /\ upLog[4].frame = DeltaEvent(R1, Ch(" "))
    /\ upLog[3].alive
    /\ Len(dispatched) = 1
    /\ textBuffers = [r1 |-> Ch(" ")]

----------------------------------------------------------------------------
(* The persona relays: part_000:56-163 ("relayA") and index.js:318-418     *)
(* ("relayB").  `client` is the RealtimeClient of part_000:71; its         *)
(* isConnected() is the variable `connected`, true from the moment         *)
(* connect() resolves until disconnect() or the loss of the connection.    *)

ClientValue == "client"

\* part_000:137-143, index.js:391-398
RelaySessionFrame(v) ==
    [type |-> "session.update",
     session |-> [model |-> "gpt-realtime",
                  instructions |-> MUNFFETT_LONG,
                  voice |-> IF v = "relayA" THEN "id:ash" ELSE "preset:Ash"]]

\* part_000:148-150, index.js:403-405
ReassertFrame == [type |-> "session.update", session |-> [instructions |-> MUNFFETT_LONG]]

\* part_000:101: relayB has no opt-in flag and always deletes the voice (index.js:358)
KeepsClientVoice(v, allow) == v = "relayA" /\ allow

\* part_000:94-107, index.js:355-360
StripSessionKeepModel(event, v, allow) ==
    IF Has(event, "type") /\ event.type = "session.update" /\ Has(event, "session")
    THEN LET s1 == DeleteField(event.session, "instructions")
             s3 == IF KeepsClientVoice(v, allow) THEN s1 ELSE DeleteField(s1, "voice")
         IN SetField(event, "session", s3)
    ELSE event

StripSession(event, v, allow) ==
    IF Has(event, "type") /\ event.type = "session.update" /\ Has(event, "session")
    THEN LET s1 == DeleteField(event.session, "instructions")
             s2 == DeleteField(s1, "model")
             s3 == IF KeepsClientVoice(v, allow) THEN s2 ELSE DeleteField(s2, "voice")
         IN SetField(event, "session", s3)
    ELSE event

\* part_000:110-114, index.js:363-367
InjectPerTurnIfAbsent(event) ==
    IF Has(event, "type") /\ event.type = "response.create"
    THEN LET r == IF Has(event, "response") THEN event.response ELSE <<>>
         IN SetField(event, "response",
                     IF Has(r, "instructions") THEN r
                     ELSE SetField(r, "instructions", MUNFFETT_PER_TURN))
    ELSE event

InjectPerTurn(event) ==
    IF Has(event, "type") /\ event.type = "response.create"
    THEN LET r == IF Has(event, "response") THEN event.response ELSE <<>>
         IN SetField(event, "response", SetField(r, "instructions", MUNFFETT_PER_TURN))
    ELSE event

MessageHandlerNoParse(data, n, v, allow) ==
    <<[from |-> "client", n |-> n,
       frame |-> IF IsJson(data) THEN InjectPerTurn(StripSession(data, v, allow))
                 ELSE data]>>

\* part_000:89-121, index.js:350-374: the frames messageHandler(data) sends upstream,
\* none when JSON.parse throws; n is the position of data among the downstream frames
MessageHandler(data, n, v, allow) ==
    IF IsJson(data)
    THEN <<[from |-> "client", n |-> n,
            frame |-> InjectPerTurn(StripSession(data, v, allow))]>>
    ELSE <<>>

\* positions in dsLog of the frames that were queued, in order
RECURSIVE QueuedPositions(_)
QueuedPositions(k) ==
    IF k = 0 THEN <<>>
    ELSE IF dsLog[k].queued THEN Append(QueuedPositions(k - 1), k)
         ELSE QueuedPositions(k - 1)

\* part_000:160-162, index.js:415-417
RECURSIVE Flush(_, _, _, _)
Flush(queue, pos, v, allow) ==
    IF queue = <<>> THEN <<>>
    ELSE MessageHandler(Head(queue), Head(pos), v, allow) \o Flush(Tail(queue), Tail(pos), v, allow)

\* part_000:123-129, index.js:376-382
RelayDownstreamMessage(data) ==
    /\ variant \in {"relayA", "relayB"}
    /\ Receiving(dsState)
    /\ dsLog' = Append(dsLog, [frame |-> data, early |-> ~upOpened, queued |-> ~connected,
                               open |-> upState = "OPEN"])
    /\ IF ~connected
       THEN /\ messageQueue' = Append(messageQueue, data)
            /\ UNCHANGED upSent
       ELSE /\ upSent' = upSent \o MessageHandler(data, Len(dsLog) + 1, variant,
                                                  ALLOW_CLIENT_VOICE)
            /\ UNCHANGED messageQueue
    /\ UNCHANGED <<config, peer, upState, dsState, upstreamOpen, downstreamOpen, textBuffers,
                   connected, timerArmed, tasks, players, dsSent, upOpened, upLog,
                   dispatched, said, errors>>

\* the connection handler with the flush of the queue ahead of its session.update
RelayConnectedFlushFirst ==
    /\ variant \in {"relayA", "relayB"}
    /\ upState = "CONNECTING"
    /\ upState' = "OPEN"
    /\ upOpened' = TRUE
    /\ connected' = TRUE
    /\ timerArmed' = TRUE
    /\ upSent' = (upSent \o Flush(messageQueue, QueuedPositions(Len(dsLog)), variant,
                                  ALLOW_CLIENT_VOICE))
                 \o <<[from |-> "server", n |-> 0, frame |-> RelaySessionFrame(variant)]>>
    /\ messageQueue' = <<>>
    /\ UNCHANGED <<config, peer, dsState, upstreamOpen, downstreamOpen, textBuffers, tasks,
                   players, dsSent, upLog, dsLog, dispatched, said, errors>>

\* part_000:133-162, index.js:386-417: client.connect() resolves; the rest of the
\* connection handler (session.update, setTimeout, flush) runs in the same turn
RelayConnected ==
    /\ variant \in {"relayA", "relayB"}
    /\ upState = "CONNECTING"
    /\ upState' = "OPEN"
    /\ upOpened' = TRUE
    /\ connected' = TRUE
    /\ timerArmed' = TRUE
    /\ upSent' = Append(upSent, [from |-> "server", n |-> 0,
                                 frame |-> RelaySessionFrame(variant)])
                 \o Flush(messageQueue, QueuedPositions(Len(dsLog)), variant,
                          ALLOW_CLIENT_VOICE)
    /\ messageQueue' = <<>>
    /\ UNCHANGED <<config, peer, dsState, upstreamOpen, downstreamOpen, textBuffers, tasks,
                   players, dsSent, upLog, dsLog, dispatched, said, errors>>

RelayConnectFailedNoClose ==
    /\ variant \in {"relayA", "relayB"}
    /\ upState = "CONNECTING"
    /\ upState' = "CLOSED"
    /\ UNCHANGED <<config, peer, dsState, upstreamOpen, downstreamOpen, textBuffers, connected,
                   messageQueue, timerArmed, tasks, players, upSent, dsSent, upOpened,
                   upLog, dsLog, dispatched, said, errors>>

\* part_000:153-157, index.js:408-412: client.connect() rejects
RelayConnectFailed ==
    /\ variant \in {"relayA", "relayB"}
    /\ upState = "CONNECTING"
    /\ upState' = "CLOSED"
    /\ dsState' = CloseSocket(dsState)
    /\ UNCHANGED <<config, peer, upstreamOpen, downstreamOpen, textBuffers, connected,
                   messageQueue, timerArmed, tasks, players, upSent, dsSent, upOpened,
                   upLog, dsLog, dispatched, said, errors>>

\* part_000:74-84, index.js:336-345
RelayUpstreamMessage(event) ==
    /\ variant \in {"relayA", "relayB"}
    /\ Receiving(upState)
    /\ upLog' = Append(upLog, [frame |-> event, alive |-> dsState = "OPEN",
                               open |-> dsState = "OPEN"])
    /\ dsSent' = DownstreamSend(dsSent, dsState, event)
    /\ UNCHANGED <<config, peer, upState, dsState, upstreamOpen, downstreamOpen, textBuffers,
                   connected, messageQueue, timerArmed, tasks, players, upSent, upOpened,
                   dsLog, dispatched, said, errors>>

\* part_000:85, index.js:346: the upstream connection closes or fails after it opened
RelayUpstreamClose ==
    /\ variant \in {"relayA", "relayB"}
    /\ upState \in {"OPEN", "CLOSING"}
    /\ upState' = "CLOSED"
    /\ connected' = FALSE
    /\ dsState' = CloseSocket(dsState)
    /\ UNCHANGED <<config, peer, upstreamOpen, downstreamOpen, textBuffers, messageQueue,
                   timerArmed, tasks, players, upSent, dsSent, upOpened, upLog, dsLog,
                   dispatched, said, errors>>

\* part_000:130, index.js:383: client.disconnect() closes the upstream connection
\* only when the client is connected
RelayDownstreamClose ==
    /\ variant \in {"relayA", "relayB"}
    /\ dsState \in {"OPEN", "CLOSING"}
    /\ dsState' = "CLOSED"
    /\ upState' = IF connected THEN CloseSocket(upState) ELSE upState
    /\ connected' = FALSE
    /\ UNCHANGED <<config, peer, upstreamOpen, downstreamOpen, textBuffers, messageQueue,
                   timerArmed, tasks, players, upSent, dsSent, upOpened, upLog, dsLog,
                   dispatched, said, errors>>

RelayTimerRepeats ==
    /\ variant \in {"relayA", "relayB"}
    /\ timerArmed
    /\ IF connected
       THEN /\ upSent' = Append(upSent, [from |-> "server", n |-> 0, frame |-> ReassertFrame])
            /\ UNCHANGED errors
       ELSE /\ errors' = errors \cup {"unhandled rejection: not connected"}
            /\ UNCHANGED upSent
    /\ UNCHANGED <<config, peer, upState, dsState, upstreamOpen, downstreamOpen, textBuffers,
                   connected, messageQueue, timerArmed, tasks, players, dsSent, upOpened,
                   upLog, dsLog, dispatched, said>>

\* part_000:146-151, index.js:401-406: client.realtime.send throws when the client
\* is not connected, which rejects the promise of the async callback
RelayTimer ==
    /\ variant \in {"relayA", "relayB"}
    /\ timerArmed
    /\ timerArmed' = FALSE
    /\ IF connected
       THEN /\ upSent' = Append(upSent, [from |-> "server", n |-> 0, frame |-> ReassertFrame])
            /\ UNCHANGED errors
       ELSE /\ errors' = errors \cup {"unhandled rejection: not connected"}
            /\ UNCHANGED upSent
    /\ UNCHANGED <<config, peer, upState, dsState, upstreamOpen, downstreamOpen, textBuffers,
                   connected, messageQueue, tasks, players, dsSent, upOpened, upLog, dsLog,
                   dispatched, said>>

----------------------------------------------------------------------------
(* The relay specification: one session of any of the three programs, from *)
(* the acceptance of the downstream connection on.                         *)

\* part_000:15; relayB has no such flag
RelayConfig ==
    /\ variant \in {"relayA", "relayB"}
    /\ ALLOW_CLIENT_VOICE \in (IF variant = "relayA" THEN BOOLEAN ELSE {FALSE})
    /\ VOICE_SWAP = FALSE
    /\ PLAY_TO = "playurl"
    /\ PLAY_URL = ""
    /\ BOT_ID = ""

\* the bridge of the relay specification runs the default deployment: PLAY_TO unset,
\* no playUrl and no bot_id in the query; the delivery specification varies them
Init ==
    /\ SessionInit
    /\ \/ BridgeConfig /\ PLAY_TO = "playurl" /\ PLAY_URL = "" /\ BOT_ID = ""
       \/ RelayConfig

\* frames of the downstream client
ClientFrames ==
    {[raw |-> "audio"],
     [type |-> "input_audio_buffer.append"],
     [type |-> "session.update"],
     [type |-> "session.update",
      session |-> [instructions |-> ClientValue, model |-> ClientValue,
                   voice |-> ClientValue, turn_detection |-> ClientValue]],
     [type |-> "response.create"],
     [type |-> "response.create", response |-> [modalities |-> ClientValue]],
     [type |-> "response.create",
      response |-> [instructions |-> ClientValue, modalities |-> ClientValue]]}

\* frames of the upstream service
ServiceFrames == {[type |-> "response.created"], [raw |-> "audio"]}

ServiceEvents == {[type |-> "response.created"], [type |-> "session.updated"]}

DownstreamMessage ==
    /\ Len(dsLog) < MaxDown
    /\ \E data \in ClientFrames :
          IF variant = "bridge" THEN BridgeDownstreamMessage(data)
          ELSE RelayDownstreamMessage(data)

UpstreamMessage ==
    /\ Len(upLog) < MaxUpRelay
    /\ IF variant = "bridge"
       THEN \E buf \in ServiceFrames : BridgeUpstreamMessage(buf)
       ELSE \E event \in ServiceEvents : RelayUpstreamMessage(event)

Next ==
    \/ BridgeUpstreamOpen
    \/ BridgeDownstreamClose
    \/ BridgeDownstreamError
    \/ BridgeUpstreamClose
    \/ BridgeUpstreamError
    \/ RelayConnected
    \/ RelayConnectFailed
    \/ RelayUpstreamClose
    \/ RelayDownstreamClose
    \/ RelayTimer
    \/ DownstreamMessage
    \/ UpstreamMessage

Spec == Init /\ [][Next]_vars

----------------------------------------------------------------------------
(* Properties of the relay specification.                                  *)

ClientSent == {i \in 1..Len(upSent) : upSent[i].from = "client"}

ServerSent == {i \in 1..Len(upSent) : upSent[i].from = "server"}

\* the positions in upSent at which the n-th downstream frame was sent upstream
SentAs(n) == {i \in ClientSent : upSent[i].n = n}

\* the client frames were sent upstream in the order in which they arrived
InArrivalOrder == \A i, j \in ClientSent : i < j => upSent[i].n < upSent[j].n

\* C3: once the upstream has opened, every frame that the downstream sent before
\* that has been delivered upstream exactly once, and the client frames are
\* delivered in arrival order.
C3_EarlyFramesDeliveredInOrder ==
    upOpened =>
        /\ \A n \in 1..Len(dsLog) : dsLog[n].early => Cardinality(SentAs(n)) = 1
        /\ InArrivalOrder

\* C4: after a close of the downstream channel the upstream channel is closed or
\* closing and never open, and after a close of the upstream channel the downstream
\* channel is closed or closing and never open.
C4_CloseClosesOtherSide ==
    /\ dsState = "CLOSED" => upState # "OPEN"
    /\ upState = "CLOSED" => dsState # "OPEN"

IsSessionUpdate(f) == Has(f, "type") /\ f.type = "session.update" /\ Has(f, "session")

\* the session.update frame sent as upSent[i] carries no client-supplied locked field
\* (the voice counts as locked unless keepVoice) and every other field of the frame
\* the downstream sent
LockedFieldsStripped(i, keepVoice) ==
    LET sent == upSent[i].frame
        orig == dsLog[upSent[i].n].frame
        locked == {"instructions", "model"} \cup (IF keepVoice THEN {} ELSE {"voice"})
    IN /\ locked \cap DOMAIN sent.session = {}
       /\ DOMAIN sent = DOMAIN orig
       /\ \A f \in (DOMAIN orig) \ {"session"} : sent[f] = orig[f]
       /\ DOMAIN sent.session = (DOMAIN orig.session) \ locked
       /\ \A f \in DOMAIN sent.session : sent.session[f] = orig.session[f]

\* C5 as stated: no session.update frame of the client reaches the upstream with an
\* instructions or model field, nor with a voice field unless ALLOW_CLIENT_VOICE is
\* set, and its other fields are unchanged, in every handler.
C5_LockedFieldsNeverForwarded ==
    \A i \in ClientSent :
        IsSessionUpdate(dsLog[upSent[i].n].frame) =>
            LockedFieldsStripped(i, ALLOW_CLIENT_VOICE)

\* C5 amended: in the persona relay handlers no session.update frame of the client,
\* queued or live, reaches the upstream with an instructions or model field, nor with
\* a voice field unless the handler has the opt-in flag (part_000) and it is set; the
\* other fields are unchanged.  The voice-swap bridge forwards client frames as they
\* are.
C5_RelayStripsLockedFields ==
    /\ variant # "bridge" =>
          \A i \in ClientSent :
              IsSessionUpdate(dsLog[upSent[i].n].frame) =>
                  LockedFieldsStripped(i, variant = "relayA" /\ ALLOW_CLIENT_VOICE)
    /\ variant = "bridge" =>
          \A i \in ClientSent : upSent[i].frame = dsLog[upSent[i].n].frame

FullSessionUpdate ==
    [type |-> "session.update",
     session |-> [instructions |-> ClientValue, model |-> ClientValue,
                  voice |-> ClientValue, turn_detection |-> ClientValue]]

\* C5 witness: a relay with the opt-in flag set forwarded a queued and a live
\* session.update, stripped of instructions and model, with the client's voice
C5_Witness ==
    /\ variant = "relayA" /\ ALLOW_CLIENT_VOICE
    /\ Len(dsLog) = 2
    /\ dsLog[1] = [frame |-> FullSessionUpdate, early |-> TRUE, queued |-> TRUE,
                   open |-> FALSE]
    /\ dsLog[2] = [frame |-> FullSessionUpdate, early |-> FALSE, queued |-> FALSE,
                   open |-> TRUE]
    /\ Cardinality(ClientSent) = 2
    /\ \A i \in ClientSent :
          upSent[i].frame.session = [voice |-> ClientValue, turn_detection |-> ClientValue]

\* C6: as long as the upstream channel has not reached the open state nothing at all
\* was sent upstream (no session configuration, no downstream frame, queued or not),
\* and once its connection has failed the downstream channel is no longer open.
C6_NothingSentWithoutOpen ==
    ~upOpened =>
        /\ upSent = <<>>
        /\ upState \in {"ERRORED", "CLOSED"} => dsState # "OPEN"

\* C6 witness: the connection failed with downstream frames received before it; the
\* downstream is being closed
C6_Witness ==
    /\ ~upOpened
    /\ upState \in {"ERRORED", "CLOSED"}
    /\ Len(dsLog) = 2
    /\ dsState = "CLOSING"

IsServerConfig(i) ==
    /\ upSent[i].frame.type = "session.update"
    /\ Has(upSent[i].frame, "session")

\* C8: no server-originated frame before the upstream is open; exactly one, a session
\* configuration, from the moment it opens; at most one more afterwards, only in the
\* persona relays and only once their timer has run; never more than two.
C8_ServerConfigurationFrames ==
    /\ \A i \in ServerSent : IsServerConfig(i)
    /\ ~upOpened => ServerSent = {}
    /\ upOpened => Cardinality(ServerSent) \in {1, 2}
    /\ (variant = "bridge" \/ timerArmed) => Cardinality(ServerSent) <= 1
    /\ Cardinality(ServerSent) = 2 =>
          /\ upSent[CHOOSE i \in ServerSent : \A j \in ServerSent : j <= i].frame
                = ReassertFrame
          /\ upSent[CHOOSE i \in ServerSent : \A j \in ServerSent : i <= j].frame
                = RelaySessionFrame(variant)

\* C8 witness: a persona relay has sent its configuration and the re-assertion
C8_Witness ==
    /\ variant = "relayB"
    /\ Cardinality(ServerSent) = 2
    /\ Cardinality(ClientSent) = 2

IsResponseCreate(f) == Has(f, "type") /\ f.type = "response.create"

PerTurnInjected(i) ==
    LET sent == upSent[i].frame
    IN /\ IsResponseCreate(sent)
       /\ Has(sent, "response")
       /\ Has(sent.response, "instructions")
       /\ sent.response.instructions = MUNFFETT_PER_TURN

\* C9 as stated: every response.create frame of the client that reaches the upstream
\* carries response.instructions equal to the per-turn text, in every handler.
C9_PerTurnAlwaysInjected ==
    \A i \in ClientSent : IsResponseCreate(dsLog[upSent[i].n].frame) => PerTurnInjected(i)

\* C9 amended: in the persona relay handlers every response.create frame of the
\* client that is sent upstream carries response.instructions equal to the per-turn
\* text, whatever the client put there; a frame handled live is sent once, a frame
\* queued before the upstream opened is sent once when it opens.  The voice-swap
\* bridge has no per-turn text and forwards the frame as it is.
C9_RelayInjectsPerTurn ==
    variant # "bridge" =>
        /\ \A i \in ClientSent :
              IsResponseCreate(dsLog[upSent[i].n].frame) => PerTurnInjected(i)
        /\ \A n \in 1..Len(dsLog) :
              (IsResponseCreate(dsLog[n].frame)
               /\ (~dsLog[n].queued \/ (dsLog[n].early /\ upOpened)))
                  => Cardinality(SentAs(n)) = 1

\* C9 witness: a queued response.create with client instructions and a live one
\* without response object both went upstream with the per-turn text
C9_Witness ==
    /\ variant = "relayA"
    /\ Len(dsLog) = 2
    /\ dsLog[1] = [frame |-> [type |-> "response.create",
                              response |-> [instructions |-> ClientValue,
                                            modalities |-> ClientValue]],
                   early |-> TRUE, queued |-> TRUE, open |-> FALSE]
    /\ dsLog[2] = [frame |-> [type |-> "response.create"], early |-> FALSE,
                   queued |-> FALSE, open |-> TRUE]
    /\ Cardinality(ClientSent) = 2
    /\ \A i \in ClientSent : PerTurnInjected(i)

----------------------------------------------------------------------------
(* The delivery specification: the voice-swap bridge under every delivery  *)
(* configuration, with the synthesis and POST requests of the delivery     *)
(* block settling in any order and the debug listener coming and going.    *)

DeliverUpEvents ==
    {DeltaEvent(R1, Ch("a")), DeltaEvent(R1, Ch("b")), DoneEvent(R1, "response.text.done")}

DeliverUpstreamMessage ==
    /\ Len(upLog) < MaxUpDeliver
    /\ \E buf \in DeliverUpEvents : BridgeUpstreamMessage(buf)

\* lengths of the synthesized PCM buffer: no chunk, one chunk, two chunks
DeliverLengths == {0, CHUNK, CHUNK + 1}

SynthSettles ==
    \E i \in 1..Len(tasks) :
        \/ \E n \in DeliverLengths : SynthResolve(i, n)
        \/ SynthReject(i)

PostSettles == \E i \in 1..Len(tasks) : \E ok \in BOOLEAN : PostSettle(i, ok)

PlayerEvent ==
    \E p \in PlayerIds :
        \/ PlayerConnect(p)
        \/ PlayerClosing(p)
        \/ PlayerClose(p)

InitDeliver == SessionInit /\ BridgeConfig

NextDeliver ==
    \/ BridgeUpstreamOpen
    \/ DeliverUpstreamMessage
    \/ SynthSettles
    \/ PostSettles
    \/ PlayerEvent
    \/ BridgeDownstreamClose
    \/ BridgeUpstreamClose

SpecDeliver == InitDeliver /\ [][NextDeliver]_vars

DoneTasks == {i \in 1..Len(tasks) : tasks[i].pc = "done"}

\* the step in which the synthesis-based sink of task i fails
SinkFails(i) == i \in 1..Len(tasks) /\ ~tasks[i].failed /\ tasks'[i].failed

\* C7: when the synthesis-based sink of an utterance fails (TTS request, injection
\* POST, or missing bot identifier) the local broadcast is invoked in the same step
\* with the text that was dispatched, neither channel changes state, nothing of the
\* relay changes, and every finished delivery has broadcast.
C7_SinkFailureKeepsBroadcast ==
    [][/\ \A i \in 1..Len(tasks) :
             SinkFails(i) =>
                 /\ said' = Append(said, [text |-> dispatched[i].text,
                                          to |-> BroadcastTargets(players)])
                 /\ UNCHANGED <<upState, dsState, upstreamOpen, downstreamOpen,
                                textBuffers, upSent, dsSent, errors>>
       /\ Len(said') = Cardinality({i \in 1..Len(tasks') : tasks'[i].pc = "done"})]_vars

\* C7 witness: no bot identifier, the injection sink failed, the text was broadcast
\* to the open listener, both channels are open and a later frame was relayed
C7_Witness ==
    /\ BOT_ID = ""
    /\ Len(tasks) = 1
    /\ tasks[1].failed /\ tasks[1].route = "recall"
    /\ said = <<[text |-> Ch("a"), to |-> {"p1"}]>>
    /\ upState = "OPEN" /\ dsState = "OPEN"
    /\ Len(upLog) = 3
    /\ Len(dsSent) = 3

\* the synthesis-based sink that PLAY_TO names
NamedSink == IF PLAY_TO = "recall" THEN "recall" ELSE "playUrl"

\* C10 as stated: every completed non-empty utterance uses exactly one synthesis-based
\* sink, the raw-media push when a raw-media URL was supplied and the sink named by
\* PLAY_TO otherwise, and is broadcast locally in addition.
C10_ExactlyOneSynthesisSink ==
    /\ Len(tasks) = Len(dispatched)
    /\ \A i \in 1..Len(tasks) :
          tasks[i].route = IF PLAY_URL # "" THEN "playUrl" ELSE NamedSink
    /\ Len(said) = Cardinality(DoneTasks)

\* C10 amended: every completed non-empty utterance uses at most one synthesis-based
\* sink: the raw-media push when a raw-media URL was supplied (whatever PLAY_TO), the
\* meeting-bot injection when none was supplied and PLAY_TO is 'recall', and none
\* when no URL was supplied and PLAY_TO is 'playUrl'; the local broadcast is invoked
\* in every case, once the sink has finished or failed.
C10_SinkSelection ==
    /\ Len(tasks) = Len(dispatched)
    /\ \A i \in 1..Len(tasks) :
          /\ tasks[i].text = dispatched[i].text
          /\ PLAY_URL # "" => tasks[i].route = "playUrl"
          /\ (PLAY_URL = "" /\ PLAY_TO = "recall") => tasks[i].route = "recall"
          /\ (PLAY_URL = "" /\ PLAY_TO # "recall") =>
                (tasks[i].route = "none" /\ tasks[i].pc = "done")
    /\ Len(said) = Cardinality(DoneTasks)
    /\ \A j \in 1..Len(said) : \E i \in DoneTasks : said[j].text = tasks[i].text

\* C10 witness: a raw-media URL with PLAY_TO 'recall': the utterance went to the
\* raw-media push and was broadcast
C10_Witness ==
    /\ PLAY_URL # "" /\ PLAY_TO = "recall"
    /\ Len(tasks) = 1
    /\ tasks[1].text = <<"a", "b">> /\ tasks[1].route = "playUrl"
    /\ tasks[1].pc = "done" /\ ~tasks[1].failed
    /\ Len(said) = 1

----------------------------------------------------------------------------
(* Session lifecycle.                                                      *)

Gone(st) == st \in {"CLOSED", "ERRORED"}

\* C11: once the downstream channel has closed or errored (also while the upstream
\* connection is still being established) the upstream channel never becomes or
\* stays open, and once the upstream channel has closed or errored the downstream
\* channel never becomes or stays open.
C11_NoHalfOpenSession ==
    [][/\ Gone(dsState) => upState' # "OPEN"
       /\ Gone(upState) => dsState' # "OPEN"]_vars

----------------------------------------------------------------------------
(* The forwarding specification: the upstream-to-downstream direction of   *)
(* the three handlers, with frames of every kind and a downstream peer     *)
(* that starts closing while frames still arrive.                          *)

MaxUpForward == 4   \* upstream frames per session, forwarding specification

ForwardUpEvents ==
    {DeltaEvent(R1, Ch("a")), DoneEvent(R1, "response.text.done"),
     R1 @@ [type |-> "response.output_item.added"],
     [type |-> "response.created"], [raw |-> "audio"]}

ForwardUpstreamMessage ==
    /\ Len(upLog) < MaxUpForward
    /\ IF variant = "bridge"
       THEN \E buf \in ForwardUpEvents : BridgeUpstreamMessage(buf)
       ELSE \E event \in ServiceEvents : RelayUpstreamMessage(event)

InitForward ==
    /\ SessionInit
    /\ \/ BridgeConfig /\ PLAY_TO = "playurl" /\ PLAY_URL = "" /\ BOT_ID = ""
       \/ RelayConfig

NextForward ==
    \/ BridgeUpstreamOpen
    \/ RelayConnected
    \/ ForwardUpstreamMessage
    \/ DownstreamClosing
    \/ BridgeDownstreamClose
    \/ RelayDownstreamClose

SpecForward == InitForward /\ [][NextForward]_vars

\* the frames of upLog[1..k] received while the downstream channel was alive and
\* its socket open, in arrival order
RECURSIVE FramesWhileOpen(_)
FramesWhileOpen(k) ==
    IF k = 0 THEN <<>>
    ELSE IF upLog[k].alive /\ upLog[k].open
         THEN Append(FramesWhileOpen(k - 1), upLog[k].frame)
         ELSE FramesWhileOpen(k - 1)

\* the step receives an upstream frame
ReceivesUpstream == Len(upLog') = Len(upLog) + 1

\* C12: the frames sent downstream are exactly the upstream frames received while the
\* downstream channel was alive, each once, in arrival order, JSON or not and whatever
\* their type; a frame that is not JSON or is neither a delta nor a completion leaves
\* the Utterance Buffer unchanged and starts no delivery; a frame whose downstream send
\* fails raises no error and leaves both channels as they are.
C12_UpstreamFramesForwarded ==
    /\ [](dsSent = FramesWhileOpen(Len(upLog)))
    /\ [][ReceivesUpstream =>
            LET e == upLog'[Len(upLog')]
            IN /\ (~IsDelta(e.frame) /\ ~IsCompletion(e.frame)) =>
                     UNCHANGED <<textBuffers, dispatched, tasks, said>>
               /\ (e.alive /\ ~e.open) =>
                     UNCHANGED <<errors, upState, dsState, upstreamOpen, downstreamOpen,
                                 dsSent>>]_vars

\* C12 witness: with a buffered delta, a non-JSON frame and an unrecognized frame of
\* the same response were forwarded and left the buffer alone; the peer then started
\* closing and the next frame was not sent, without error, the session still up
C12_Witness ==
    /\ variant = "bridge" /\ VOICE_SWAP
    /\ Len(upLog) = 4
    /\ upLog[1].frame = DeltaEvent(R1, Ch("a"))
    /\ upLog[2].frame = [raw |-> "audio"]
    /\ upLog[3].frame = R1 @@ [type |-> "response.output_item.added"]
    /\ upLog[4].alive /\ ~upLog[4].open
    /\ dsSent = <<upLog[1].frame, upLog[2].frame, upLog[3].frame>>
    /\ textBuffers = [r1 |-> Ch("a")]
    /\ dispatched = <<>>
    /\ errors = {}
    /\ upState = "OPEN" /\ dsState = "CLOSING"

----------------------------------------------------------------------------
(* Delivery and relay traffic.                                             *)

\* the deliveries whose synthesis or POST request is still pending
PendingTasks == {i \in 1..Len(tasks) : tasks[i].pc # "done"}

\* C13: while the delivery of an earlier utterance is still pending, an upstream frame
\* received with the downstream alive is forwarded downstream and handled by the Event
\* Interceptor in the very step in which it arrives: a delta is appended to its buffer
\* entry, a completion removes the entry and, when its text is not empty, starts the
\* next delivery; the pending deliveries are left as they are.
C13_DeliveryDoesNotBlockRelay ==
    [][(ReceivesUpstream /\ PendingTasks # {} /\ upLog'[Len(upLog')].alive) =>
          LET e == upLog'[Len(upLog')]
              rid == e.frame.response_id
              old == IF rid \in DOMAIN textBuffers THEN textBuffers[rid] ELSE <<>>
          IN /\ e.open => dsSent' = Append(dsSent, e.frame)
             /\ \A i \in PendingTasks : tasks'[i] = tasks[i]
             /\ (VOICE_SWAP /\ IsDelta(e.frame)) =>
                   /\ textBuffers'[rid] = old \o e.frame.delta
                   /\ UNCHANGED <<tasks, dispatched>>
             /\ (VOICE_SWAP /\ IsCompletion(e.frame)) =>
                   /\ rid \notin DOMAIN textBuffers'
                   /\ IF AllSpaces(old)
                      THEN UNCHANGED <<tasks, dispatched>>
                      ELSE /\ Len(tasks') = Len(tasks) + 1
                           /\ IsTrimOf(tasks'[Len(tasks')].text, old)
                           /\ Len(dispatched') = Len(dispatched) + 1
                           /\ dispatched'[Len(dispatched')].at = Len(upLog')
                           /\ IsTrimOf(dispatched'[Len(dispatched')].text, old)]_vars

\* C13 witness: the synthesis request of the first utterance is still pending; the
\* deltas and the completion of the second arrived afterwards, all four frames were
\* forwarded, and the second utterance has been delivered and broadcast
C13_Witness ==
    /\ Len(tasks) = 2
    /\ tasks[1].pc = "synth"
    /\ tasks[2].pc = "done" /\ tasks[2].route # "none"
    /\ Len(upLog) = 4 /\ Len(dsSent) = 4
    /\ dispatched[1].at = 2 /\ dispatched[2].at = 4
    /\ Len(said) = 1

----------------------------------------------------------------------------
(* The key specification: the Event Interceptor of the voice-swap bridge   *)
(* on events that carry a response identifier, only an item identifier,    *)
(* both or neither, with a downstream that may close in between.           *)

MaxUpKey == 4       \* upstream frames per session, key specification

KeyUpEvents ==
    {DeltaEvent(R1, Ch("b")), DoneEvent(R1, "response.text.done"),
     DeltaEvent(R1 @@ I1, Ch("a")),
     DeltaEvent(I1, Ch("a")), DoneEvent(I1, "response.text.done"),
     [type |-> "response.text.delta", delta |-> Ch("a")],
     [type |-> "response.text.delta", delta |-> Ch(" ")],
     [type |-> "response.done"]}

KeyUpstreamMessage ==
    /\ Len(upLog) < MaxUpKey
    /\ \E buf \in KeyUpEvents : BridgeUpstreamMessage(buf)

NextKey ==
    \/ BridgeUpstreamOpen
    \/ KeyUpstreamMessage
    \/ BridgeDownstreamClose

SpecKey == InitText /\ [][NextKey]_vars

----------------------------------------------------------------------------
(* The Utterance Buffer.                                                   *)

\* the identifier a delta or completion event names: its response identifier, else
\* its item identifier, else the default key
KeyOf(f) ==
    IF "response_id" \in DOMAIN f THEN f.response_id
    ELSE IF "item_id" \in DOMAIN f THEN f.item_id
    ELSE "default"

\* the deltas of identifier r in upLog after which no completion of r was received
OpenDeltas(r) ==
    {j \in 1..Len(upLog) :
        /\ IsDelta(upLog[j].frame) /\ KeyOf(upLog[j].frame) = r
        /\ \A k \in (j + 1)..Len(upLog) :
              ~(IsCompletion(upLog[k].frame) /\ KeyOf(upLog[k].frame) = r)}

\* the same, counting only the events that were handled, that is, received while the
\* downstream channel was alive
OpenHandledDeltas(r) ==
    {j \in 1..Len(upLog) :
        /\ upLog[j].alive /\ IsDelta(upLog[j].frame) /\ KeyOf(upLog[j].frame) = r
        /\ \A k \in (j + 1)..Len(upLog) :
              ~(upLog[k].alive /\ IsCompletion(upLog[k].frame)
                /\ KeyOf(upLog[k].frame) = r)}

Identifiers == {KeyOf(upLog[j].frame) : j \in 1..Len(upLog)}

\* C14 as stated: an identifier has a buffer entry only if a delta for it was received
\* and no completion event for it was received since, and right after a completion
\* event the buffer holds no entry for its identifier.
C14_EntryOnlyUntilCompletion ==
    /\ \A r \in DOMAIN textBuffers : OpenDeltas(r) # {}
    /\ (Len(upLog) > 0 /\ IsCompletion(upLog[Len(upLog)].frame)) =>
          KeyOf(upLog[Len(upLog)].frame) \notin DOMAIN textBuffers

\* C14 amended: an identifier has a buffer entry exactly when voice-swap is enabled, a
\* delta for it was handled while the downstream channel was alive and no completion
\* event for it was handled since; a completion event handled while the downstream is
\* alive leaves no entry for its identifier, whether or not its text was empty; events
\* received after the downstream channel has closed are ignored and leave the buffer
\* as it is.
C14_EntryUntilHandledCompletion ==
    /\ \A r \in DOMAIN textBuffers : VOICE_SWAP /\ OpenHandledDeltas(r) # {}
    /\ VOICE_SWAP => \A r \in Identifiers : OpenHandledDeltas(r) # {} => r \in DOMAIN textBuffers
    /\ (Len(upLog) > 0 /\ upLog[Len(upLog)].alive /\ IsCompletion(upLog[Len(upLog)].frame)) =>
          KeyOf(upLog[Len(upLog)].frame) \notin DOMAIN textBuffers

\* C14 witness: the completion of the default key found only whitespace, dispatched
\* nothing and removed the entry; a delta of r1 arrived afterwards and r1 alone has
\* an entry
C14_Witness ==
    /\ Len(upLog) = 3
    /\ upLog[1].frame = [type |-> "response.text.delta", delta |-> Ch(" ")]
    /\ upLog[2].frame = [type |-> "response.done"]
    /\ upLog[2].alive
    /\ upLog[3].frame = DeltaEvent(R1, Ch("b"))
    /\ textBuffers = [r1 |-> Ch("b")]
    /\ dispatched = <<>>

----------------------------------------------------------------------------
(* The downstream-to-upstream direction: the client specification is the   *)
(* relay specification without frames of the upstream service.             *)

NextClient ==
    \/ BridgeUpstreamOpen
    \/ BridgeDownstreamClose
    \/ BridgeDownstreamError
    \/ BridgeUpstreamClose
    \/ BridgeUpstreamError
    \/ RelayConnected
    \/ RelayConnectFailed
    \/ RelayUpstreamClose
    \/ RelayDownstreamClose
    \/ RelayTimer
    \/ DownstreamMessage

SpecClient == Init /\ [][NextClient]_vars

\* C15 as stated: every frame received from the downstream client while the upstream
\* channel is open is sent upstream exactly once, whatever its content, and the client
\* frames go upstream in arrival order.
C15_EveryFrameForwardedOnceOpen ==
    /\ \A n \in 1..Len(dsLog) : dsLog[n].open => Cardinality(SentAs(n)) = 1
    /\ InArrivalOrder

\* C15 amended: while the upstream channel is open, the voice-swap bridge sends every
\* downstream frame upstream exactly once and unchanged, JSON or not; the persona
\* relays send every downstream frame that parses as JSON exactly once (unchanged
\* unless it is a session.update or a response.create) and drop a frame that does
\* not parse; in all handlers client frames go upstream in arrival order.
C15_FramesForwardedWhileOpen ==
    /\ InArrivalOrder
    /\ \A n \in 1..Len(dsLog) :
          dsLog[n].open =>
              IF variant = "bridge" \/ IsJson(dsLog[n].frame)
              THEN /\ Cardinality(SentAs(n)) = 1
                   /\ \A i \in SentAs(n) :
                         (variant = "bridge"
                          \/ dsLog[n].frame.type \notin {"session.update", "response.create"})
                            => upSent[i].frame = dsLog[n].frame
              ELSE SentAs(n) = {}

\* C15 witness: with the upstream open, a persona relay dropped a frame that is not
\* JSON and forwarded the audio event that followed it
C15_Witness ==
    /\ variant = "relayB"
    /\ Len(dsLog) = 2
    /\ dsLog[1].open /\ dsLog[1].frame = [raw |-> "audio"]
    /\ dsLog[2].open /\ dsLog[2].frame = [type |-> "input_audio_buffer.append"]
    /\ Cardinality(ClientSent) = 1
    /\ \A i \in ClientSent : upSent[i].n = 2 /\ upSent[i].frame = dsLog[2].frame

----------------------------------------------------------------------------
(* The key of a buffer entry.                                              *)

NoResponseId(f) == "response_id" \notin DOMAIN f

ResponseIds ==
    {upLog[j].frame.response_id :
        j \in {i \in 1..Len(upLog) : ~NoResponseId(upLog[i].frame)}}

\* the last handled completion before k without response identifier (0 when none)
PreviousUnnamedCompletion(k) ==
    LET S == {j \in 1..(k - 1) : /\ upLog[j].alive /\ IsCompletion(upLog[j].frame)
                                 /\ NoResponseId(upLog[j].frame)}
    IN IF S = {} THEN 0 ELSE CHOOSE j \in S : \A i \in S : i <= j

\* the texts of the handled deltas without response identifier in upLog[lo..hi]
RECURSIVE ConcatUnnamed(_, _)
ConcatUnnamed(lo, hi) ==
    IF lo > hi THEN <<>>
    ELSE (IF /\ upLog[lo].alive /\ IsDelta(upLog[lo].frame)
             /\ NoResponseId(upLog[lo].frame) /\ Has(upLog[lo].frame, "delta")
          THEN upLog[lo].frame.delta ELSE <<>>)
         \o ConcatUnnamed(lo + 1, hi)

\* C16 as stated: every buffer key is a response identifier or the default key, and a
\* completion event without response identifier dispatches the concatenation of the
\* deltas without response identifier received since the previous such completion.
C16_KeyIsResponseIdOrDefault ==
    VOICE_SWAP =>
        /\ DOMAIN textBuffers \subseteq ResponseIds \cup {"default"}
        /\ \A k \in 1..Len(upLog) :
              (/\ upLog[k].alive /\ IsCompletion(upLog[k].frame)
               /\ NoResponseId(upLog[k].frame)
               /\ ~AllSpaces(ConcatUnnamed(PreviousUnnamedCompletion(k) + 1, k - 1))) =>
                  /\ Cardinality(DispatchesAt(k)) = 1
                  /\ \A i \in DispatchesAt(k) :
                        IsTrimOf(dispatched[i].text,
                                 ConcatUnnamed(PreviousUnnamedCompletion(k) + 1, k - 1))

\* the last handled completion before k with the key of k (0 when none)
PreviousKeyCompletion(k) ==
    LET S == {j \in 1..(k - 1) : /\ upLog[j].alive /\ IsCompletion(upLog[j].frame)
                                 /\ KeyOf(upLog[j].frame) = KeyOf(upLog[k].frame)}
    IN IF S = {} THEN 0 ELSE CHOOSE j \in S : \A i \in S : i <= j

\* the texts of the handled deltas with key r in upLog[lo..hi]
RECURSIVE ConcatKey(_, _, _)
ConcatKey(r, lo, hi) ==
    IF lo > hi THEN <<>>
    ELSE (IF /\ upLog[lo].alive /\ IsDelta(upLog[lo].frame)
             /\ KeyOf(upLog[lo].frame) = r /\ Has(upLog[lo].frame, "delta")
          THEN upLog[lo].frame.delta ELSE <<>>)
         \o ConcatKey(r, lo + 1, hi)

ExpectedByKey(k) == ConcatKey(KeyOf(upLog[k].frame), PreviousKeyCompletion(k) + 1, k - 1)

\* C16 amended: the buffer key of a delta or completion event is its response
\* identifier, else its item identifier, else the default key.  Every entry holds the
\* concatenation of the deltas with its key handled since the last completion with
\* that key, and a completion event dispatches the trimmed concatenation of the deltas
\* with its own key (once, and only when it is not empty); so deltas and a completion
\* that both carry no identifier at all address the default entry, while deltas that
\* carry only an item identifier are not dispatched by a completion without one.
C16_KeyFallsBackToItemId ==
    VOICE_SWAP =>
        /\ \A r \in DOMAIN textBuffers :
              /\ OpenHandledDeltas(r) # {}
              /\ LET first == CHOOSE j \in OpenHandledDeltas(r) :
                                  \A i \in OpenHandledDeltas(r) : j <= i
                 IN textBuffers[r] = ConcatKey(r, first, Len(upLog))
        /\ \A k \in 1..Len(upLog) :
              (upLog[k].alive /\ IsCompletion(upLog[k].frame)) =>
                  IF AllSpaces(ExpectedByKey(k))
                  THEN DispatchesAt(k) = {}
                  ELSE /\ Cardinality(DispatchesAt(k)) = 1
                       /\ \A i \in DispatchesAt(k) :
                             IsTrimOf(dispatched[i].text, ExpectedByKey(k))

\* C16 witness: a delta with only an item identifier and a delta with no identifier,
\* then a completion with no identifier: the completion dispatched the text of the
\* second delta alone, and the first is still buffered under its item identifier
C16_Witness ==
    /\ Len(upLog) = 3
    /\ upLog[1].frame = DeltaEvent(I1, Ch("a"))
    /\ upLog[2].frame = [type |-> "response.text.delta", delta |-> Ch("a")]
    /\ upLog[3].frame = [type |-> "response.done"]
    /\ dispatched = <<[at |-> 3, text |-> Ch("a")]>>
    /\ textBuffers = [i1 |-> Ch("a")]

----------------------------------------------------------------------------
(* The raw-media push specification: the voice-swap bridge with a playback *)
(* URL, PCM buffers of lengths around the multiples of the chunk size, and *)
(* every POST succeeding or failing.                                       *)

MaxUpPush == 4      \* upstream frames per session, push specification

\* lengths of the synthesized PCM buffer, up to MaxChunks chunks
PcmLengths ==
    {n \in {k * CHUNK + d : k \in 0..MaxChunks, d \in {-1, 0, 1}} :
        0 <= n /\ n <= MaxChunks * CHUNK}

PushUpEvents == {DeltaEvent(R1, Ch("a")), DoneEvent(R1, "response.text.done")}

PushUpstreamMessage ==
    /\ Len(upLog) < MaxUpPush
    /\ \E buf \in PushUpEvents : BridgeUpstreamMessage(buf)

PushSynthSettles ==
    \E i \in 1..Len(tasks) :
        \/ \E n \in PcmLengths : SynthResolve(i, n)
        \/ SynthReject(i)

InitPush ==
    /\ SessionInit
    /\ BridgeConfig
    /\ VOICE_SWAP
    /\ PLAY_URL = "https://play"
    /\ BOT_ID = ""

NextPush ==
    \/ BridgeUpstreamOpen
    \/ PushUpstreamMessage
    \/ PushSynthSettles
    \/ PostSettles

SpecPush == InitPush /\ [][NextPush]_vars

\* the POSTs p of a push of a buffer of len bytes that has reached offset off are
\* consecutive slices from offset 0 on, none empty, none longer than CHUNK
SequentialChunks(p, off, len) ==
    /\ \A k \in 1..Len(p) :
          /\ p[k].lo = (IF k = 1 THEN 0 ELSE p[k - 1].hi)
          /\ p[k].lo < p[k].hi
          /\ p[k].hi - p[k].lo <= CHUNK
          /\ p[k].hi <= len
    /\ \A k \in 1..(Len(p) - 1) : p[k].hi - p[k].lo = CHUNK

\* the byte at offset b was posted exactly once
PostedOnce(p, b) == Cardinality({k \in 1..Len(p) : p[k].lo <= b /\ b < p[k].hi}) = 1

\* C17: the POSTs of a raw-media push are made one after the other at increasing
\* offsets, consecutive slices of at most CHUNK bytes starting at offset 0; a finished
\* push has covered the buffer up to its last byte, each byte once, whether its POSTs
\* succeeded or failed; a failed POST is not repeated and does not fail the delivery.
C17_ChunksCoverBufferOnce ==
    \A i \in 1..Len(tasks) :
        LET t == tasks[i]
        IN t.route = "playUrl" =>
              /\ SequentialChunks(t.posts, t.off, t.len)
              /\ t.failed => (t.posts = <<>> /\ t.len = 0)
              /\ t.pc = "post" =>
                    /\ t.off < t.len
                    /\ t.off = Len(t.posts) * CHUNK
                    /\ t.posts # <<>> => t.posts[Len(t.posts)].hi = t.off
              /\ (t.pc = "done" /\ ~t.failed) =>
                    /\ IF t.len = 0 THEN t.posts = <<>>
                       ELSE t.posts[Len(t.posts)].hi = t.len
                    /\ \A b \in {0, CHUNK - 1, CHUNK, t.len - 1} :
                          (0 <= b /\ b < t.len) => PostedOnce(t.posts, b)

\* C17 witness: a buffer of CHUNK + 1 bytes: the POST of the first chunk failed, the
\* one-byte second chunk was posted all the same, and the delivery finished without
\* failure and was broadcast
C17_Witness ==
    /\ Len(tasks) = 1
    /\ tasks[1].route = "playUrl" /\ tasks[1].pc = "done" /\ ~tasks[1].failed
    /\ tasks[1].len = CHUNK + 1
    /\ tasks[1].posts = <<[lo |-> 0, hi |-> CHUNK, ok |-> FALSE],
                          [lo |-> CHUNK, hi |-> CHUNK + 1, ok |-> TRUE]>>
    /\ Len(said) = 1

----------------------------------------------------------------------------
(* The states of a session.                                                *)

\* UPSTREAM_CONNECTING, UPSTREAM_OPEN, CLOSING, CLOSED, numbered in their order
SessionRank ==
    CASE dsState = "OPEN" /\ upState = "CONNECTING" -> 1
      [] dsState = "OPEN" /\ upState = "OPEN" -> 2
      [] Gone(dsState) /\ Gone(upState) -> 4
      [] OTHER -> 3

\* C18: the session state only moves forward; once the session has started closing
\* neither channel is open or connecting again, and no frame is sent upstream or
\* downstream.
C18_SingleUseSession ==
    [][/\ SessionRank' >= SessionRank
       /\ SessionRank >= 3 =>
             /\ upState' \notin {"CONNECTING", "OPEN"} \/ upState' = upState
             /\ dsState' # "OPEN"
             /\ UNCHANGED <<upSent, dsSent>>]_vars

----------------------------------------------------------------------------
(* The isolation specification: two sessions of the voice-swap bridge      *)
(* served by one process, receiving events with the same response          *)
(* identifier in any interleaving.                                         *)

MaxUpIso == 2       \* upstream frames per session, isolation specification
MaxDownIso == 1     \* downstream frames per session, isolation specification

IsoUpEvents ==
    {DeltaEvent(R1, Ch("a")), DeltaEvent(R1, Ch("b")), DoneEvent(R1, "response.text.done")}

IsoClientFrames == {[type |-> "input_audio_buffer.append"], [raw |-> "audio"]}

IsoUpstreamMessage ==
    /\ Len(upLog) < MaxUpIso
    /\ \E buf \in IsoUpEvents : BridgeUpstreamMessage(buf)

IsoPeerUpstreamMessage ==
    /\ Len(peer.upLog) < MaxUpIso
    /\ \E buf \in IsoUpEvents : PeerUpstreamMessage(buf)

IsoDownstreamMessage ==
    /\ Len(dsLog) < MaxDownIso
    /\ \E msg \in IsoClientFrames : BridgeDownstreamMessage(msg)

IsoPeerDownstreamMessage ==
    /\ Len(peer.dsLog) < MaxDownIso
    /\ \E msg \in IsoClientFrames : PeerDownstreamMessage(msg)

InitIso ==
    /\ SessionInit
    /\ BridgeConfig
    /\ VOICE_SWAP
    /\ PLAY_TO = "playurl" /\ PLAY_URL = "" /\ BOT_ID = ""

NextIso ==
    \/ BridgeUpstreamOpen
    \/ IsoUpstreamMessage
    \/ IsoPeerUpstreamMessage
    \/ IsoDownstreamMessage
    \/ IsoPeerDownstreamMessage

SpecIso == InitIso /\ [][NextIso]_vars

\* the last handled completion before k in log with the key of log[k] (0 when none)
LogPrevious(log, k) ==
    LET S == {j \in 1..(k - 1) : /\ log[j].alive /\ IsCompletion(log[j].frame)
                                 /\ KeyOf(log[j].frame) = KeyOf(log[k].frame)}
    IN IF S = {} THEN 0 ELSE CHOOSE j \in S : \A i \in S : i <= j

\* the texts of the handled deltas with key r in log[lo..hi], in arrival order
RECURSIVE LogConcat(_, _, _, _)
LogConcat(log, r, lo, hi) ==
    IF lo > hi THEN <<>>
    ELSE (IF /\ log[lo].alive /\ IsDelta(log[lo].frame)
             /\ KeyOf(log[lo].frame) = r /\ Has(log[lo].frame, "delta")
          THEN log[lo].frame.delta ELSE <<>>)
         \o LogConcat(log, r, lo + 1, hi)

\* the last handled completion with key r in log (0 when none)
LogLastCompletion(log, r) ==
    LET S == {j \in 1..Len(log) : /\ log[j].alive /\ IsCompletion(log[j].frame)
                                  /\ KeyOf(log[j].frame) = r}
    IN IF S = {} THEN 0 ELSE CHOOSE j \in S : \A i \in S : i <= j

\* buffers and dispatches of a session are those its own upstream frames account for
OwnEventsOnly(log, buffers, disp) ==
    /\ \A r \in DOMAIN buffers :
          buffers[r] = LogConcat(log, r, LogLastCompletion(log, r) + 1, Len(log))
    /\ \A i \in 1..Len(disp) : disp[i].at \in 1..Len(log)
    /\ \A k \in 1..Len(log) :
          LET at == {i \in 1..Len(disp) : disp[i].at = k}
              own == LogConcat(log, KeyOf(log[k].frame), LogPrevious(log, k) + 1, k - 1)
          IN IF log[k].alive /\ IsCompletion(log[k].frame) /\ ~AllSpaces(own)
             THEN Cardinality(at) = 1 /\ \A i \in at : IsTrimOf(disp[i].text, own)
             ELSE at = {}

\* the frames of log received while the downstream socket was open, in order
RECURSIVE LogFramesWhileOpen(_, _)
LogFramesWhileOpen(log, k) ==
    IF k = 0 THEN <<>>
    ELSE IF log[k].alive /\ log[k].open
         THEN Append(LogFramesWhileOpen(log, k - 1), log[k].frame)
         ELSE LogFramesWhileOpen(log, k - 1)

\* the client frames sent upstream are the session's own downstream frames
OwnClientFrames(sent, log) ==
    \A i \in 1..Len(sent) :
        sent[i].from = "client" =>
            (sent[i].n \in 1..Len(log) /\ sent[i].frame = log[sent[i].n].frame)

\* C19: with two sessions running, the Utterance Buffer of each session and the texts
\* it dispatches are those of its own upstream events alone, also when the other
\* session receives events with the same response identifier; each session's
\* downstream receives exactly its own upstream frames and each session's upstream
\* only its own downstream frames; a step of one session leaves the state of the
\* other as it is.
C19_SessionsIsolated ==
    /\ [](/\ OwnEventsOnly(upLog, textBuffers, dispatched)
          /\ OwnEventsOnly(peer.upLog, peer.textBuffers, peer.dispatched)
          /\ dsSent = LogFramesWhileOpen(upLog, Len(upLog))
          /\ peer.dsSent = LogFramesWhileOpen(peer.upLog, Len(peer.upLog))
          /\ OwnClientFrames(upSent, dsLog)
          /\ OwnClientFrames(peer.upSent, peer.dsLog)
          /\ Len(said) = Len(dispatched) + Len(peer.dispatched))
    /\ [][/\ peer' # peer =>
                UNCHANGED <<textBuffers, dispatched, tasks, upSent, dsSent, upLog, dsLog,
                            upState, dsState>>
          /\ <<textBuffers, dispatched, upSent, dsSent, upLog, dsLog>>
                # <<textBuffers', dispatched', upSent', dsSent', upLog', dsLog'>>
                => peer' = peer]_vars

\* C19 witness: both sessions received a delta of r1 before either received its
\* completion; each dispatched its own text, and each relayed its own frames only
C19_Witness ==
    /\ Len(upLog) = 2 /\ Len(peer.upLog) = 2
    /\ upLog[1].frame = DeltaEvent(R1, Ch("a"))
    /\ peer.upLog[1].frame = DeltaEvent(R1, Ch("b"))
    /\ dispatched = <<[at |-> 2, text |-> Ch("a")]>>
    /\ peer.dispatched = <<[at |-> 2, text |-> Ch("b")]>>
    /\ said[1].text = Ch("b") /\ said[2].text = Ch("a")
    /\ Len(dsSent) = 2 /\ Len(peer.dsSent) = 2
    /\ Len(upSent) = 2 /\ Len(peer.upSent) = 1

----------------------------------------------------------------------------
(* The broadcast specification: the voice-swap bridge with two debug       *)
(* listeners that connect, start closing and close at any time.            *)

MaxUpBroadcast == 2 \* upstream frames per session, broadcast specification

ListenerIds == {"p1", "p2"}

BroadcastUpEvents == {DeltaEvent(R1, Ch("a")), DoneEvent(R1, "response.text.done")}

BroadcastUpstreamMessage ==
    /\ Len(upLog) < MaxUpBroadcast
    /\ \E buf \in BroadcastUpEvents : BridgeUpstreamMessage(buf)

ListenerEvent ==
    \E p \in ListenerIds :
        \/ PlayerConnect(p)
        \/ PlayerClosing(p)
        \/ PlayerClose(p)

InitBroadcast ==
    /\ SessionInit
    /\ BridgeConfig
    /\ VOICE_SWAP
    /\ PLAY_URL = ""

NextBroadcast ==
    \/ BridgeUpstreamOpen
    \/ BroadcastUpstreamMessage
    \/ SynthSettles
    \/ PostSettles
    \/ ListenerEvent

SpecBroadcast == InitBroadcast /\ [][NextBroadcast]_vars

\* the listeners that are registered and open
OpenListeners == {p \in DOMAIN players : players[p] = "OPEN"}

\* C20: a local broadcast sends the utterance to exactly the listeners registered and
\* open at that moment, skipping the others without error, and changes nothing of the
\* relay; the registry changes only by a listener that connects, which is added in
\* the open state, or closes, which is removed, and never during a broadcast.
C20_BroadcastToOpenListeners ==
    [][/\ said' # said =>
             /\ Len(said') = Len(said) + 1
             /\ \A j \in 1..Len(said) : said'[j] = said[j]
             /\ said'[Len(said')].to = OpenListeners
             /\ \E i \in 1..Len(tasks') :
                   /\ tasks'[i].pc = "done"
                   /\ said'[Len(said')].text = tasks'[i].text
                   /\ (i > Len(tasks) \/ tasks[i].pc # "done")
             /\ UNCHANGED <<players, errors, upState, dsState, upstreamOpen,
                            downstreamOpen, upSent>>
       /\ players' # players =>
             /\ UNCHANGED said
             /\ \/ \E p \in (DOMAIN players') \ DOMAIN players :
                      /\ players'[p] = "OPEN"
                      /\ DOMAIN players' = DOMAIN players \cup {p}
                \/ \E p \in (DOMAIN players) \ DOMAIN players' :
                      DOMAIN players' = (DOMAIN players) \ {p}
                \/ \E p \in DOMAIN players :
                      /\ DOMAIN players' = DOMAIN players
                      /\ players[p] = "OPEN" /\ players'[p] = "CLOSING"]_vars

\* C20 witness: two listeners are registered, p2 has started closing; the utterance
\* was sent to p1 alone, no error was raised and both channels are open
C20_Witness ==
    /\ players = [p1 |-> "OPEN", p2 |-> "CLOSING"]
    /\ said = <<[text |-> Ch("a"), to |-> {"p1"}]>>
    /\ errors = {}
    /\ upState = "OPEN" /\ dsState = "OPEN"

----------------------------------------------------------------------------
(* Order of the deliveries of one session: each completion event starts    *)
(* its own delivery inside the async 'message' handler of index.js:199,    *)
(* and nothing makes a later delivery wait for an earlier one.             *)

\* C21 as stated: the utterances of a session reach the sinks in the order in which
\* their completion events arrived: a later utterance has not been handed to the
\* synthesis-based sink, nor broadcast to the listeners, while the delivery of an
\* earlier one is still pending.
C21_DeliveredInCompletionOrder ==
    \A i, j \in 1..Len(tasks) :
        (i < j /\ tasks[j].pc = "done") => tasks[i].pc = "done"

----------------------------------------------------------------------------
(* The upstream-ready flag of the voice-swap bridge (index.js:181): set at *)
(* 'open' (index.js:187) and read by the downstream handler (index.js:247).*)

\* C22 as stated: in the voice-swap bridge the upstream-ready flag is true only while
\* the upstream channel is open, so no downstream frame is handed to upstream.send
\* (a frame received once the flag is set) when the upstream channel has already
\* closed or errored.
C22_FlagOnlyWhileUpstreamOpen ==
    variant = "bridge" =>
        /\ upstreamOpen => ~Gone(upState)
        /\ \A k \in 1..Len(dsLog) : ~dsLog[k].early => dsLog[k].open

----------------------------------------------------------------------------
(* The first frame of the upstream channel: the session.update of the      *)
(* 'open' handler (index.js:186-197) or of the connection handler          *)
(* (part_000:136-143, index.js:390-398), ahead of every client frame.      *)

\* the session configuration the server of the running variant sends on its own
OwnSessionFrame ==
    IF variant = "bridge" THEN BridgeSessionFrame ELSE RelaySessionFrame(variant)

\* C23: the first frame sent to the upstream channel in a session is the server's own
\* session configuration; every client frame that reaches the upstream, queued or
\* live, comes after it, and nothing is sent upstream before the channel has opened.
C23_ServerFrameFirst ==
    /\ ~upOpened => upSent = <<>>
    /\ upSent # <<>> =>
          /\ upSent[1].from = "server"
          /\ upSent[1].frame = OwnSessionFrame
          /\ \A i \in ClientSent : i > 1

\* C23 witness: a relay whose client sent a frame during the connection and another
\* after it; the server's session.update went upstream first, then the queued frame,
\* then the live one
C23_Witness ==
    /\ variant \in {"relayA", "relayB"}
    /\ Len(dsLog) = 2
    /\ dsLog[1].queued /\ ~dsLog[2].queued
    /\ Len(upSent) >= 3
    /\ upSent[1].from = "server" /\ upSent[1].frame = RelaySessionFrame(variant)
    /\ upSent[2].from = "client" /\ upSent[2].n = 1
    /\ \E i \in ClientSent : upSent[i].n = 2

----------------------------------------------------------------------------
(* The closed specification: the voice-swap bridge whose downstream closes *)
(* or fails while deliveries are pending and the upstream, which is only   *)
(* closing, still delivers frames (index.js:199-203, 249-250).             *)

MaxUpClosed == 4    \* upstream frames per session, closed specification

ClosedUpEvents == {DeltaEvent(R1, Ch("a")), DoneEvent(R1, "response.text.done")}

ClosedUpstreamMessage ==
    /\ Len(upLog) < MaxUpClosed
    /\ \E buf \in ClosedUpEvents : BridgeUpstreamMessage(buf)

NextClosed ==
    \/ BridgeUpstreamOpen
    \/ ClosedUpstreamMessage
    \/ SynthSettles
    \/ PostSettles
    \/ BridgeDownstreamClose
    \/ BridgeDownstreamError
    \/ BridgeUpstreamClose

SpecClosed == InitText /\ [][NextClosed]_vars

\* the next settlement of the requests of delivery i
TaskSettles(i) ==
    \/ \E n \in DeliverLengths : SynthResolve(i, n)
    \/ SynthReject(i)
    \/ \E ok \in BOOLEAN : PostSettle(i, ok)

\* C24: once the downstream channel of a voice-swap session has closed or errored,
\* no step sends an upstream frame to it, changes the Utterance Buffer or starts a
\* delivery (no new task, no new dispatch), while every delivery that is still
\* pending can take its next step.
C24_NothingNewAfterDownstreamGone ==
    /\ [](Gone(dsState) => \A i \in PendingTasks : ENABLED TaskSettles(i))
    /\ [][Gone(dsState) =>
             /\ dsSent' = dsSent
             /\ textBuffers' = textBuffers
             /\ dispatched' = dispatched
             /\ Len(tasks') = Len(tasks)]_vars

\* C24 witness: the downstream failed while a delivery was awaiting its synthesis and
\* the buffer held a delta; the completion event that arrived afterwards was not
\* forwarded, left the buffer as it was and started nothing
C24_Witness ==
    /\ VOICE_SWAP
    /\ dsState = "ERRORED"
    /\ Len(upLog) = 4
    /\ upLog[3].alive /\ IsDelta(upLog[3].frame)
    /\ ~upLog[4].alive /\ IsCompletion(upLog[4].frame)
    /\ Len(dsSent) = 3
    /\ textBuffers = [r1 |-> Ch("a")]
    /\ Len(tasks) = 1 /\ tasks[1].pc = "synth"
    /\ Len(dispatched) = 1

----------------------------------------------------------------------------
(* The delayed re-assertion of the persona relays (part_000:145-151,       *)
(* index.js:400-406): a timer set by the connection handler and never      *)
(* cleared.                                                                *)

\* C25 as stated: in the persona relays, once the downstream or the upstream channel
\* has closed, the timer of the re-assertion sends no configuration frame to the
\* upstream and raises no error.
C25_TimerQuietAfterClose ==
    [][(variant \in {"relayA", "relayB"} /\ (Gone(dsState) \/ Gone(upState))) =>
          /\ ServerSent' = ServerSent
          /\ errors' = errors]_vars

====
